---- MODULE Spec2Model ----
(***************************************************************************)
(* A model of rbbi-go: the rule-based break iterator (rbbi.go), the        *)
(* StringCursor it scans, the state tables and the code point trie.        *)
(*                                                                         *)
(* The break-data bundles of the repository are generated data; the model  *)
(* runs the engine on four small bundles that satisfy the invariants of    *)
(* the data model (state 0 is the stop sink, state 1 the start state,      *)
(* accepting and lookahead ids > 1 are below lookaheadResultsSize, every   *)
(* category is below categoryCount).                                       *)
(***************************************************************************)
EXTENDS Integers, Sequences, FiniteSets, TLC

VARIABLES
    data,              \* RBBI.data: the bundle the engine was constructed on
    lookaheadMatches,  \* RBBI.lookaheadMatches
    ruleStatusIndex,   \* RBBI.ruleStatusIndex
    cursor,            \* RBBI.cursor: NoCursor, or the bound StringCursor
    pc,                \* position of the running call ("idle": none is running)
    caller,            \* who called the running Next: "user" or "Previous"
    nx,                \* locals of the running Next
    pv,                \* locals of the running Previous
    ev,                \* what the last step returned to its caller, if anything
    calls,             \* the last (up to two) calls the user made in a row
    fwdRun,            \* the Next calls made in a row since the cursor was at 0
    prevRun            \* the Previous calls made in a row since the cursor was at end

vars == <<data, lookaheadMatches, ruleStatusIndex, cursor, pc, caller, nx, pv,
          ev, calls, fwdRun, prevRun>>

(***************************************************************************)
(* Bounds of the model.                                                    *)
(***************************************************************************)
\* Texts have at most MaxLen bytes.
MaxLen == 3

\* The bytes texts are made of: 'a', and the two bytes of U+0301 (combining
\* acute accent), 0xCC 0x81.  Texts need not be valid UTF-8.
Bytes == {97, 204, 129}

Texts == UNION {[1..n -> Bytes] : n \in 0..MaxLen}

(***************************************************************************)
(* unicode/utf8, as used by StringCursor.                                  *)
(***************************************************************************)
RuneError == 65533

\* first: the accept range of the second byte and the size, by first byte.
\* size 0: the byte starts no sequence.
first(x) ==
    IF x < 128 THEN [size |-> 1, lo |-> 0, hi |-> 0]
    ELSE IF x >= 194 /\ x <= 223 THEN [size |-> 2, lo |-> 128, hi |-> 191]
    ELSE IF x = 224 THEN [size |-> 3, lo |-> 160, hi |-> 191]
    ELSE IF x = 237 THEN [size |-> 3, lo |-> 128, hi |-> 159]
    ELSE IF x >= 225 /\ x <= 239 THEN [size |-> 3, lo |-> 128, hi |-> 191]
    ELSE IF x = 240 THEN [size |-> 4, lo |-> 144, hi |-> 191]
    ELSE IF x = 244 THEN [size |-> 4, lo |-> 128, hi |-> 143]
    ELSE IF x >= 241 /\ x <= 243 THEN [size |-> 4, lo |-> 128, hi |-> 191]
    ELSE [size |-> 0, lo |-> 0, hi |-> 0]

IsCont(b) == b >= 128 /\ b <= 191

\* utf8.RuneStart
RuneStart(b) == ~IsCont(b)

\* utf8.DecodeRuneInString(s): the first rune of s and its width in bytes.
DecodeRuneInString(s) ==
    LET n == Len(s)
        bad == [r |-> RuneError, size |-> 1]
    IN IF n < 1 THEN [r |-> RuneError, size |-> 0]
       ELSE LET x == first(s[1]) IN
            IF x.size = 1 THEN [r |-> s[1], size |-> 1]
            ELSE IF x.size = 0 \/ n < x.size THEN bad
            ELSE IF s[2] < x.lo \/ s[2] > x.hi THEN bad
            ELSE IF x.size = 2
                 THEN [r |-> (s[1] % 32) * 64 + (s[2] % 64), size |-> 2]
            ELSE IF ~IsCont(s[3]) THEN bad
            ELSE IF x.size = 3
                 THEN [r |-> (s[1] % 16) * 4096 + (s[2] % 64) * 64 + (s[3] % 64),
                       size |-> 3]
            ELSE IF ~IsCont(s[4]) THEN bad
            ELSE [r |-> (s[1] % 8) * 262144 + (s[2] % 64) * 4096
                        + (s[3] % 64) * 64 + (s[4] % 64),
                  size |-> 4]

\* The index (0-based) at which DecodeLastRuneInString starts decoding: it
\* walks back from end-2 to lim and stops at the first byte that starts a rune.
RECURSIVE LastStart(_, _, _)
LastStart(s, start, lim) ==
    IF start < lim THEN start
    ELSE IF RuneStart(s[start + 1]) THEN start
    ELSE LastStart(s, start - 1, lim)

\* utf8.DecodeLastRuneInString(s): the last rune of s and its width in bytes.
DecodeLastRuneInString(s) ==
    LET end == Len(s) IN
    IF end = 0 THEN [r |-> RuneError, size |-> 0]
    ELSE IF s[end] < 128 THEN [r |-> s[end], size |-> 1]
    ELSE LET lim == IF end - 4 < 0 THEN 0 ELSE end - 4
             st0 == LastStart(s, end - 2, lim)
             start == IF st0 < 0 THEN 0 ELSE st0
             d == DecodeRuneInString(SubSeq(s, start + 1, end))
         IN IF start + d.size # end THEN [r |-> RuneError, size |-> 1] ELSE d

(***************************************************************************)
(* StringCursor.  A cursor is a record [text, position].                   *)
(***************************************************************************)
NoCursor == [text |-> <<>>, position |-> -1]

NewStringCursor(text) == [text |-> text, position |-> 0]

Position(c) == c.position

\* SetPosition: the cursor after the call, and whether an error was returned.
SetPosition(c, position) ==
    IF position < 0 THEN [cursor |-> c, err |-> TRUE]
    ELSE IF position > Len(c.text) THEN [cursor |-> c, err |-> TRUE]
    ELSE [cursor |-> [c EXCEPT !.position = position], err |-> FALSE]

\* StringCursor.Next: the rune, ok, and the cursor after the call.
CursorNext(c) ==
    IF c.position >= Len(c.text) THEN [r |-> -1, ok |-> FALSE, cursor |-> c]
    ELSE LET d == DecodeRuneInString(SubSeq(c.text, c.position + 1, Len(c.text)))
         IN [r |-> d.r, ok |-> TRUE,
             cursor |-> [c EXCEPT !.position = c.position + d.size]]

\* StringCursor.Previous: the rune, ok, and the cursor after the call.
CursorPrevious(c) ==
    IF c.position <= 0 THEN [r |-> -1, ok |-> FALSE, cursor |-> c]
    ELSE LET d == DecodeLastRuneInString(SubSeq(c.text, 1, c.position))
         IN [r |-> d.r, ok |-> TRUE,
             cursor |-> [c EXCEPT !.position = c.position - d.size]]

(***************************************************************************)
(* ucpTrie.  Shifts and masks are written as divisions and remainders:     *)
(* x >> k is x \div 2^k (arithmetic shift), x & (2^k - 1) is x % 2^k.      *)
(***************************************************************************)
ucpTrieTypeFast == 0
ucpTrieValueWidth16 == 0
ucpTrieValueWidth32 == 1
ucpTrieValueWidth8 == 2

ucpTrieFastShift == 6
ucpTrieFastDataBlockLength == 2 ^ ucpTrieFastShift
ucpTrieHighValueNegDataOffset == 2
ucpTrieErrorValueNegDataOffset == 1
ucpTrieShift3 == 4
ucpTrieShift2 == 5 + ucpTrieShift3
ucpTrieShift1 == 5 + ucpTrieShift2
ucpTrieSmallLimit == 4096
ucpTrieSmallIndexLength == ucpTrieSmallLimit \div (2 ^ ucpTrieFastShift)
ucpTrieBmpIndexLength == 65536 \div (2 ^ ucpTrieFastShift)
ucpTrieOmittedBmpIndex1Length == 65536 \div (2 ^ ucpTrieShift1)
ucpTrieIndex2BlockLength == 2 ^ (ucpTrieShift1 - ucpTrieShift2)
ucpTrieIndex3BlockLength == 2 ^ (ucpTrieShift2 - ucpTrieShift3)
ucpTrieSmallDataBlockLength == 2 ^ ucpTrieShift3

\* A lookup that the Go runtime aborts (index out of range, failed assertion).
Abort == -1

\* t.index[i], or Abort when i is outside the slice.
IndexAt(t, i) == IF i \in DOMAIN t.index THEN t.index[i] ELSE Abort

\* internalSmallIndex, lines 132-145: the data index from the index-3 block.
dataBlockIndex(t, codePoint, i3Block, i3) ==
    IF i3Block = Abort THEN Abort
    ELSE IF (i3Block \div 32768) % 2 = 0
    THEN \* 16-bit indexes
         IF IndexAt(t, i3Block + i3) = Abort THEN Abort
         ELSE t.index[i3Block + i3] + (codePoint % ucpTrieSmallDataBlockLength)
    ELSE \* 18-bit indexes stored in groups of 9 entries per 8 indexes
         IF IndexAt(t, (i3Block % 32768) + (i3 - (i3 % 8)) + (i3 \div 8)) = Abort
            \/ IndexAt(t, (i3Block % 32768) + (i3 - (i3 % 8)) + (i3 \div 8)
                          + 1 + (i3 % 8)) = Abort
         THEN Abort
         ELSE ((((t.index[(i3Block % 32768) + (i3 - (i3 % 8)) + (i3 \div 8)]
                  * (2 ^ (2 + 2 * (i3 % 8)))) \div 65536) % 4) * 65536)
              + t.index[(i3Block % 32768) + (i3 - (i3 % 8)) + (i3 \div 8)
                        + 1 + (i3 % 8)]
              + (codePoint % ucpTrieSmallDataBlockLength)

\* internalSmallIndex, lines 128-129: the index-3 block from index-1 entry i1.
index3Block(t, codePoint, i1) ==
    IF IndexAt(t, i1) = Abort THEN Abort
    ELSE IndexAt(t, t.index[i1]
                    + ((codePoint \div (2 ^ ucpTrieShift2)) % ucpTrieIndex2BlockLength))

internalSmallIndex(t, codePoint) ==
    IF t.trieType = ucpTrieTypeFast
    THEN IF 65535 >= codePoint \/ codePoint >= t.highStart THEN Abort
         ELSE dataBlockIndex(t, codePoint,
                 index3Block(t, codePoint,
                     (codePoint \div (2 ^ ucpTrieShift1))
                     + ucpTrieBmpIndexLength - ucpTrieOmittedBmpIndex1Length),
                 (codePoint \div (2 ^ ucpTrieShift3)) % ucpTrieIndex3BlockLength)
    ELSE IF codePoint >= t.highStart \/ t.highStart <= ucpTrieSmallLimit THEN Abort
         ELSE dataBlockIndex(t, codePoint,
                 index3Block(t, codePoint,
                     (codePoint \div (2 ^ ucpTrieShift1)) + ucpTrieSmallIndexLength),
                 (codePoint \div (2 ^ ucpTrieShift3)) % ucpTrieIndex3BlockLength)

fastIndex(t, codePoint) ==
    IF IndexAt(t, codePoint \div (2 ^ ucpTrieFastShift)) = Abort THEN Abort
    ELSE t.index[codePoint \div (2 ^ ucpTrieFastShift)]
         + (codePoint % ucpTrieFastDataBlockLength)

smallIndex(t, codePoint) ==
    IF codePoint >= t.highStart
    THEN t.dataLength - ucpTrieHighValueNegDataOffset
    ELSE internalSmallIndex(t, codePoint)

codePointIndex(t, fastMax, codePoint) ==
    IF codePoint <= fastMax THEN fastIndex(t, codePoint)
    ELSE IF codePoint <= 1114111 THEN smallIndex(t, codePoint)
    ELSE t.dataLength - ucpTrieErrorValueNegDataOffset

\* fastGet, lines 183-192: the value at a data index.  The three data slices
\* are one function here: the bundles of the model fill the slice of their width.
dataAt(t, index) ==
    IF index = Abort THEN Abort
    ELSE IF t.valueWidth \in {ucpTrieValueWidth8, ucpTrieValueWidth16, ucpTrieValueWidth32}
    THEN IF index \in DOMAIN t.data THEN t.data[index] ELSE Abort
    ELSE 0

\* fastGet: the trie value of a code point, or Abort.
fastGet(t, codePoint) == dataAt(t, codePointIndex(t, 65535, codePoint))

(***************************************************************************)
(* The break data.  Categories: 0 error, 1 end of input, 2 beginning of    *)
(* input, 3 any other code point, 4 the combining mark U+0301.             *)
(***************************************************************************)
categoryCount == 5

\* The trie of the bundles: the BMP index points every block of 64 code
\* points at data block 0 (all category 3) but the block of U+0300..U+033F,
\* which is data block 64..127; the last two values are the high value and
\* the error value.
Trie ==
    [trieType |-> ucpTrieTypeFast,
     valueWidth |-> ucpTrieValueWidth16,
     dataLength |-> 130,
     highStart |-> 65536,
     index |-> [i \in 0..(ucpTrieBmpIndexLength - 1) |-> IF i = 12 THEN 64 ELSE 0],
     data |-> [i \in 0..129 |-> IF i = 65 THEN 4 ELSE IF i = 129 THEN 0 ELSE 3]]

\* rbbiStateTableRow; ns[k + 1] is nextStates[k].
Row(accepting, lookahead, tagIndex, ns) ==
    [accepting |-> accepting, lookahead |-> lookahead, tagIndex |-> tagIndex,
     nextStates |-> [k \in 0..(Len(ns) - 1) |-> ns[k + 1]]]

\* rbbiStateTable; rs[s + 1] is rows[s].
Table(bofRequired, lookaheadResultsSize, rs) ==
    [bofRequired |-> bofRequired, lookaheadResultsSize |-> lookaheadResultsSize,
     rows |-> [s \in 0..(Len(rs) - 1) |-> rs[s + 1]]]

StopRow == Row(0, 0, 0, <<0, 0, 0, 0, 0>>)

\* Reverse table that stops before the nearest code point that is no
\* combining mark: a cluster starts there.
ReverseCluster == Table(FALSE, 0, <<StopRow, Row(0, 0, 0, <<0, 0, 0, 0, 1>>)>>)

\* Reverse table that never reaches state 0: the start of text is the safe point.
ReverseToStart == Table(FALSE, 0, <<StopRow, Row(0, 0, 0, <<1, 1, 1, 1, 1>>)>>)

\* Clusters: a code point and the combining marks after it.
DataCluster ==
    [forwardTable |-> Table(FALSE, 2,
        <<StopRow,
          Row(0, 0, 0, <<2, 0, 0, 2, 2>>),
          Row(1, 0, 1, <<0, 0, 0, 0, 2>>)>>),
     reverseTable |-> ReverseCluster,
     trie |-> Trie, categoryCount |-> categoryCount]

\* Lookahead rules: one other code point is accepted (row 5) and is also the
\* slash position of "a / mark"; a second one is the slash position of
\* "a a / x" (row 2), which any code point after it completes (row 3), so the
\* completion returns a position other than the one row 5 accepted; two
\* that end the text are accepted at end of input (row 4); a mark is a
\* segment of its own.  Row 3 is reached from rows 2 and 5 only; it carries a
\* lookahead field of its own, which shows whether a completion processes it.
DataLookahead ==
    [forwardTable |-> Table(FALSE, 3,
        <<StopRow,
          Row(0, 0, 0, <<4, 0, 0, 5, 4>>),
          Row(0, 2, 0, <<0, 4, 0, 3, 3>>),
          Row(2, 2, 2, <<0, 0, 0, 0, 0>>),
          Row(1, 0, 1, <<0, 0, 0, 0, 0>>),
          Row(1, 2, 1, <<0, 0, 0, 2, 3>>)>>),
     reverseTable |-> ReverseToStart,
     trie |-> Trie, categoryCount |-> categoryCount]

\* bofRequired: row 2 is reached on the beginning-of-input category and
\* accepts; a combining mark right after it stops the machine.
DataBof ==
    [forwardTable |-> Table(TRUE, 2,
        <<StopRow,
          Row(0, 0, 0, <<0, 0, 2, 0, 0>>),
          Row(1, 0, 3, <<3, 0, 0, 3, 0>>),
          Row(1, 0, 1, <<0, 0, 0, 0, 3>>)>>),
     reverseTable |-> ReverseCluster,
     trie |-> Trie, categoryCount |-> categoryCount]

\* A table in which the row that completes lookahead 2 (row 3) is reached
\* without its slash row (row 2) on a text that starts with a combining mark.
DataUnguarded ==
    [forwardTable |-> Table(FALSE, 3,
        <<StopRow,
          Row(0, 0, 0, <<4, 0, 0, 2, 3>>),
          Row(1, 2, 1, <<0, 0, 0, 0, 0>>),
          Row(2, 0, 2, <<0, 0, 0, 0, 0>>),
          Row(1, 0, 1, <<0, 0, 0, 0, 0>>)>>),
     reverseTable |-> ReverseToStart,
     trie |-> Trie, categoryCount |-> categoryCount]

Kinds == {"cluster", "lookahead", "bof", "unguarded"}

\* The rbbiData a bundle name stands for.
Bundle(kind) ==
    CASE kind = "cluster" -> DataCluster
      [] kind = "lookahead" -> DataLookahead
      [] kind = "bof" -> DataBof
      [] kind = "unguarded" -> DataUnguarded

(***************************************************************************)
(* RBBI.  The engine is the variables data, lookaheadMatches,              *)
(* ruleStatusIndex and cursor.  The operators below work on a record       *)
(*   [cursor, lookaheadMatches, ruleStatusIndex, nx, pc, ret]              *)
(* the state of one Next call: the actions apply them to the variables,    *)
(* and NextCall runs a whole call with them.                               *)
(***************************************************************************)
rbbiStateStart == 1
rbbiStateStop == 0
rbbiAcceptingUnconditional == 1

rbbiRunModeStart == 0
rbbiRunModeRun == 1
rbbiRunModeEnd == 2

\* newRBBI: make([]int, lookaheadResultsSize) is all zero.
newLookaheadMatches(d) == [i \in 0..(d.forwardTable.lookaheadResultsSize - 1) |-> 0]

\* The locals of Next; saved and log are not in the code: the lookahead slots
\* this call has written so far, and one entry per state transition (line
\* 166) it has made: the mode and category of the iteration, the code point
\* held in c, the state reached and the cursor position at that moment.
NoLocals == [initialPosition |-> 0, result |-> 0, c |-> 0, nextOk |-> FALSE,
             state |-> 0, mode |-> 0, category |-> 0, saved |-> {}, log |-> <<>>]

\* What a call returns; via is not in the code: the return statement taken
\* ("end": line 115 or 242, "lookahead": line 191 with a slot this call wrote,
\* "stale": line 191 with a slot this call did not write, "forced": line 252
\* after lines 238-248, "accept": line 252 otherwise).
NoRet == [position |-> -1, ok |-> FALSE, via |-> "end", log |-> <<>>]

\* rows[state], or StopRow for a state outside the table (rows[state] then aborts).
RowOf(table, state) == IF state \in DOMAIN table.rows THEN table.rows[state] ELSE StopRow

\* Next, lines 97-126: up to the loop.
NextEnter(d, s) ==
    LET initialPosition == Position(s.cursor)
        n == CursorNext(s.cursor)
        bof == d.forwardTable.bofRequired
    IN IF ~n.ok
       THEN [s EXCEPT !.ruleStatusIndex = 0, !.cursor = n.cursor,
                      !.pc = "return", !.ret = NoRet]
       ELSE [s EXCEPT !.ruleStatusIndex = 0, !.cursor = n.cursor,
                      !.pc = "Next_loop",
                      !.nx = [initialPosition |-> initialPosition,
                              result |-> initialPosition,
                              c |-> n.r, nextOk |-> TRUE,
                              state |-> rbbiStateStart,
                              mode |-> IF bof THEN rbbiRunModeStart ELSE rbbiRunModeRun,
                              category |-> IF bof THEN 2 ELSE 0,
                              saved |-> {}, log |-> <<>>]]

\* Lines 214-231 with a beginning-of-input iteration that advances the
\* cursor like any other: the first code point is dropped.
NextAdvanceAfterBof(d, s, state, mode, category) ==
    LET f == [s.nx EXCEPT !.state = state, !.mode = mode, !.category = category] IN
    IF state = rbbiStateStop
    THEN [s EXCEPT !.nx = f, !.pc = "Next_after"]
    ELSE IF mode = rbbiRunModeRun \/ mode = rbbiRunModeStart
    THEN LET n == CursorNext(s.cursor) IN
         [s EXCEPT !.nx = [f EXCEPT !.c = n.r, !.nextOk = n.ok,
                                !.mode = rbbiRunModeRun],
                   !.cursor = n.cursor]
    ELSE IF mode = rbbiRunModeStart
    THEN [s EXCEPT !.nx = [f EXCEPT !.mode = rbbiRunModeRun]]
    ELSE [s EXCEPT !.nx = f]

\* Next, lines 214-231: the end of one iteration, after the row was examined.
NextAdvance(d, s, state, mode, category) ==
    LET f == [s.nx EXCEPT !.state = state, !.mode = mode, !.category = category] IN
    IF state = rbbiStateStop
    THEN [s EXCEPT !.nx = f, !.pc = "Next_after"]
    ELSE IF mode = rbbiRunModeRun
    THEN LET n == CursorNext(s.cursor) IN
         [s EXCEPT !.nx = [f EXCEPT !.c = n.r, !.nextOk = n.ok], !.cursor = n.cursor]
    ELSE IF mode = rbbiRunModeStart
    THEN [s EXCEPT !.nx = [f EXCEPT !.mode = rbbiRunModeRun]]
    ELSE [s EXCEPT !.nx = f]

\* Next, lines 195-212: the lookahead field of the row reached.
NextLookahead(d, s, state, mode, category) ==
    LET rule == RowOf(d.forwardTable, state).lookahead IN
    IF rule # 0 /\ rule <= rbbiAcceptingUnconditional THEN [s EXCEPT !.pc = "panic"]
    ELSE IF rule # 0 /\ rule >= d.forwardTable.lookaheadResultsSize
    THEN [s EXCEPT !.pc = "panic"]
    ELSE IF rule > rbbiAcceptingUnconditional
    THEN NextAdvance(d, [s EXCEPT !.lookaheadMatches[rule] = Position(s.cursor),
                                  !.nx.saved = @ \cup {rule}],
                     state, mode, category)
    ELSE NextAdvance(d, s, state, mode, category)

\* Lines 169-193 with a completed lookahead that returns the position the
\* last unconditional acceptance recorded (result) in place of the saved one.
NextAcceptingReturnsResult(d, s, state, mode, category) ==
    LET row == RowOf(d.forwardTable, state)
        accepting == row.accepting
    IN IF accepting = rbbiAcceptingUnconditional
       THEN LET s1 == IF mode # rbbiRunModeStart
                      THEN [s EXCEPT !.nx.result = Position(s.cursor)]
                      ELSE s
            IN NextLookahead(d, [s1 EXCEPT !.ruleStatusIndex = row.tagIndex],
                             state, mode, category)
       ELSE IF accepting > rbbiAcceptingUnconditional
       THEN IF accepting >= d.forwardTable.lookaheadResultsSize
            THEN [s EXCEPT !.pc = "panic"]
            ELSE LET lookaheadResult == s.lookaheadMatches[accepting] IN
                 IF lookaheadResult >= 0
                 THEN [s EXCEPT !.ruleStatusIndex = row.tagIndex,
                                !.cursor = SetPosition(s.cursor, s.nx.result).cursor,
                                !.nx = [s.nx EXCEPT !.state = state, !.mode = mode,
                                                    !.category = category],
                                !.pc = "return",
                                !.ret = [position |-> s.nx.result, ok |-> TRUE,
                                         via |-> IF accepting \in s.nx.saved
                                                 THEN "lookahead" ELSE "stale",
                                         log |-> s.nx.log]]
                 ELSE NextLookahead(d, s, state, mode, category)
       ELSE NextLookahead(d, s, state, mode, category)

\* Lines 169-193 with an unconditional acceptance that records its position
\* only when none was recorded before: the first match in place of the last.
NextAcceptingKeepsFirst(d, s, state, mode, category) ==
    LET row == RowOf(d.forwardTable, state)
        accepting == row.accepting
    IN IF accepting = rbbiAcceptingUnconditional
       THEN LET s1 == IF mode # rbbiRunModeStart /\ s.nx.result = s.nx.initialPosition
                      THEN [s EXCEPT !.nx.result = Position(s.cursor)]
                      ELSE s
            IN NextLookahead(d, [s1 EXCEPT !.ruleStatusIndex = row.tagIndex],
                             state, mode, category)
       ELSE IF accepting > rbbiAcceptingUnconditional
       THEN IF accepting >= d.forwardTable.lookaheadResultsSize
            THEN [s EXCEPT !.pc = "panic"]
            ELSE LET lookaheadResult == s.lookaheadMatches[accepting] IN
                 IF lookaheadResult >= 0
                 THEN [s EXCEPT !.ruleStatusIndex = row.tagIndex,
                                !.cursor = SetPosition(s.cursor, lookaheadResult).cursor,
                                !.nx = [s.nx EXCEPT !.state = state, !.mode = mode,
                                                    !.category = category],
                                !.pc = "return",
                                !.ret = [position |-> lookaheadResult, ok |-> TRUE,
                                         via |-> IF accepting \in s.nx.saved
                                                 THEN "lookahead" ELSE "stale",
                                         log |-> s.nx.log]]
                 ELSE NextLookahead(d, s, state, mode, category)
       ELSE NextLookahead(d, s, state, mode, category)

\* Next, lines 169-193: the accepting field of the row reached.
NextAccepting(d, s, state, mode, category) ==
    LET row == RowOf(d.forwardTable, state)
        accepting == row.accepting
    IN IF accepting = rbbiAcceptingUnconditional
       THEN LET s1 == IF mode # rbbiRunModeStart
                      THEN [s EXCEPT !.nx.result = Position(s.cursor)]
                      ELSE s
            IN NextLookahead(d, [s1 EXCEPT !.ruleStatusIndex = row.tagIndex],
                             state, mode, category)
       ELSE IF accepting > rbbiAcceptingUnconditional
       THEN IF accepting >= d.forwardTable.lookaheadResultsSize
            THEN [s EXCEPT !.pc = "panic"]
            ELSE LET lookaheadResult == s.lookaheadMatches[accepting] IN
                 IF lookaheadResult >= 0
                 THEN [s EXCEPT !.ruleStatusIndex = row.tagIndex,
                                !.cursor = SetPosition(s.cursor, lookaheadResult).cursor,
                                !.nx = [s.nx EXCEPT !.state = state, !.mode = mode,
                                                    !.category = category],
                                !.pc = "return",
                                !.ret = [position |-> lookaheadResult, ok |-> TRUE,
                                         via |-> IF accepting \in s.nx.saved
                                                 THEN "lookahead" ELSE "stale",
                                         log |-> s.nx.log]]
                 ELSE NextLookahead(d, s, state, mode, category)
       ELSE NextLookahead(d, s, state, mode, category)

\* Next, lines 166-167: the state transition.
NextTransition(d, s, mode, category) ==
    LET state == RowOf(d.forwardTable, s.nx.state).nextStates[category]
    IN IF state \notin DOMAIN d.forwardTable.rows THEN [s EXCEPT !.pc = "panic"]
       ELSE NextAccepting(d, [s EXCEPT !.nx.log = Append(@, [mode |-> mode,
                                   category |-> category, c |-> s.nx.c,
                                   state |-> state, position |-> Position(s.cursor)])],
                          state, mode, category)

\* Next, lines 158-164: the category assertion.
NextCategory(d, s, mode, category) ==
    IF category = Abort \/ (category % 65536) >= d.categoryCount
    THEN [s EXCEPT !.pc = "panic"]
    ELSE NextTransition(d, s, mode, category % 65536)

\* Lines 129-231 without the end-of-input iteration of lines 130-143: the loop
\* is left as soon as the cursor is exhausted.
NextLoopSkipsEnd(d, s) ==
    IF ~s.nx.nextOk
    THEN [s EXCEPT !.pc = "Next_after"]
    ELSE IF s.nx.mode = rbbiRunModeRun
    THEN NextCategory(d, s, rbbiRunModeRun, fastGet(d.trie, s.nx.c))
    ELSE NextCategory(d, s, s.nx.mode, s.nx.category)

\* Next, lines 129-231: one iteration of the loop.
NextLoop(d, s) ==
    IF ~s.nx.nextOk /\ s.nx.mode = rbbiRunModeEnd
    THEN [s EXCEPT !.pc = "Next_after"]
    ELSE IF ~s.nx.nextOk
    THEN NextCategory(d, s, rbbiRunModeEnd, 1)
    ELSE IF s.nx.mode = rbbiRunModeRun
    THEN NextCategory(d, s, rbbiRunModeRun, fastGet(d.trie, s.nx.c))
    ELSE NextCategory(d, s, s.nx.mode, s.nx.category)

\* Lines 233-253 without the forced advance of lines 238-249: a call whose
\* scan recorded no position after the entry position gives up.
NextAfterGivesUp(d, s) ==
    IF s.nx.result = s.nx.initialPosition
    THEN [s EXCEPT !.cursor = SetPosition(s.cursor, s.nx.initialPosition).cursor,
                   !.pc = "return", !.ret = NoRet]
    ELSE [s EXCEPT !.cursor = SetPosition(s.cursor, s.nx.result).cursor,
                   !.pc = "return",
                   !.ret = [position |-> s.nx.result, ok |-> TRUE, via |-> "accept",
                           log |-> s.nx.log]]

\* Lines 233-253 without line 248: the forced advance keeps the tag an
\* accepting row set earlier in the call.
NextAfterKeepsTag(d, s) ==
    IF s.nx.result = s.nx.initialPosition
    THEN LET c1 == SetPosition(s.cursor, s.nx.initialPosition).cursor
             n == CursorNext(c1)
         IN IF ~n.ok
            THEN [s EXCEPT !.cursor = n.cursor, !.pc = "return", !.ret = NoRet]
            ELSE LET result == Position(n.cursor) IN
                 [s EXCEPT !.cursor = SetPosition(n.cursor, result).cursor,
                           !.nx.result = result, !.nx.c = n.r,
                           !.pc = "return",
                           !.ret = [position |-> result, ok |-> TRUE, via |-> "forced",
                                    log |-> s.nx.log]]
    ELSE [s EXCEPT !.cursor = SetPosition(s.cursor, s.nx.result).cursor,
                   !.pc = "return",
                   !.ret = [position |-> s.nx.result, ok |-> TRUE, via |-> "accept",
                           log |-> s.nx.log]]

\* Next, lines 233-253: after the loop.
NextAfter(d, s) ==
    IF s.nx.result = s.nx.initialPosition
    THEN LET c1 == SetPosition(s.cursor, s.nx.initialPosition).cursor
             n == CursorNext(c1)
         IN IF ~n.ok
            THEN [s EXCEPT !.cursor = n.cursor, !.pc = "return", !.ret = NoRet]
            ELSE LET result == Position(n.cursor) IN
                 [s EXCEPT !.cursor = SetPosition(n.cursor, result).cursor,
                           !.nx.result = result, !.nx.c = n.r,
                           !.ruleStatusIndex = 0,
                           !.pc = "return",
                           !.ret = [position |-> result, ok |-> TRUE, via |-> "forced",
                                    log |-> s.nx.log]]
    ELSE [s EXCEPT !.cursor = SetPosition(s.cursor, s.nx.result).cursor,
                   !.pc = "return",
                   !.ret = [position |-> s.nx.result, ok |-> TRUE, via |-> "accept",
                           log |-> s.nx.log]]

\* A whole Next call from the state s it has reached.
RECURSIVE NextRun(_, _)
NextRun(d, s) ==
    IF s.pc = "Next_loop" THEN NextRun(d, NextLoop(d, s))
    ELSE IF s.pc = "Next_after" THEN NextAfter(d, s)
    ELSE s

\* RBBI.Next on an engine with the given cursor and lookaheadMatches.
NextCall(d, c, lam) ==
    NextRun(d, NextEnter(d, [cursor |-> c, lookaheadMatches |-> lam,
                             ruleStatusIndex |-> 0, nx |-> NoLocals,
                             pc |-> "Next_enter", ret |-> NoRet]))

(***************************************************************************)
(* Forward iteration, as in the loop of the README: Next is called until   *)
(* it returns ok = false.                                                  *)
(***************************************************************************)
\* The positions that at most fuel calls of Next return one after the other,
\* on an engine with cursor c and lookaheadMatches lam.
RECURSIVE Iterate(_, _, _, _)
Iterate(d, c, lam, fuel) ==
    IF fuel = 0 THEN <<>>
    ELSE LET r == NextCall(d, c, lam) IN
         IF r.pc # "return" \/ ~r.ret.ok THEN <<>>
         ELSE <<r.ret.position>> \o Iterate(d, r.cursor, r.lookaheadMatches, fuel - 1)

\* Forward iteration over text from position 0 on a newly constructed engine.
\* A text of n bytes has at most n break positions after 0; one more call
\* shows a position that is returned again.
ForwardBreaks(d, text) ==
    Iterate(d, NewStringCursor(text), newLookaheadMatches(d), Len(text) + 1)

\* The break positions of a text: position 0 and those forward iteration returns.
BreakPositions(d, text) ==
    {0} \cup {ForwardBreaks(d, text)[i] : i \in 1..Len(ForwardBreaks(d, text))}

(***************************************************************************)
(* safePrevious, lines 258-301.                                            *)
(***************************************************************************)
\* The loop of lines 273-294, entered with ok = TRUE: the cursor it ends on,
\* or NoCursor when the category assertion fails.
RECURSIVE safePreviousLoop(_, _, _, _)

\* Lines 278-293 without the break of lines 287-291: the scan goes on to the
\* start of the text.
safePreviousStepToStart(d, c, category, state) ==
    IF category = Abort \/ category >= d.categoryCount THEN NoCursor
    ELSE IF RowOf(d.reverseTable, state).nextStates[category]
            \notin DOMAIN d.reverseTable.rows
    THEN NoCursor
    ELSE IF CursorPrevious(c).ok
    THEN safePreviousLoop(d, CursorPrevious(c).cursor, CursorPrevious(c).r,
                          RowOf(d.reverseTable, state).nextStates[category])
    ELSE CursorPrevious(c).cursor

\* Lines 278-293, with the category looked up.
safePreviousStep(d, c, category, state) ==
    IF category = Abort \/ category >= d.categoryCount THEN NoCursor
    ELSE IF RowOf(d.reverseTable, state).nextStates[category]
            \notin DOMAIN d.reverseTable.rows
    THEN NoCursor
    ELSE IF RowOf(d.reverseTable, state).nextStates[category] = rbbiStateStop THEN c
    ELSE IF CursorPrevious(c).ok
    THEN safePreviousLoop(d, CursorPrevious(c).cursor, CursorPrevious(c).r,
                          RowOf(d.reverseTable, state).nextStates[category])
    ELSE CursorPrevious(c).cursor

safePreviousLoop(d, c, r, state) == safePreviousStep(d, c, fastGet(d.trie, r), state)

\* Lines 258-301 with line 300 returning ok = false when the scan ended at the
\* start of the text.
safePreviousFailsAtStart(d, c, fromPosition) ==
    LET c1 == SetPosition(c, fromPosition).cursor
        p == CursorPrevious(c1)
    IN IF ~p.ok
       THEN [position |-> -1, ok |-> FALSE, cursor |-> p.cursor, panic |-> FALSE]
       ELSE LET c2 == safePreviousLoop(d, p.cursor, p.r, rbbiStateStart) IN
            IF c2 = NoCursor
            THEN [position |-> -1, ok |-> FALSE, cursor |-> p.cursor, panic |-> TRUE]
            ELSE [position |-> Position(c2), ok |-> Position(c2) > 0, cursor |-> c2,
                  panic |-> FALSE]

safePrevious(d, c, fromPosition) ==
    LET c1 == SetPosition(c, fromPosition).cursor
        p == CursorPrevious(c1)
    IN IF ~p.ok
       THEN [position |-> -1, ok |-> FALSE, cursor |-> p.cursor, panic |-> FALSE]
       ELSE LET c2 == safePreviousLoop(d, p.cursor, p.r, rbbiStateStart) IN
            IF c2 = NoCursor
            THEN [position |-> -1, ok |-> FALSE, cursor |-> p.cursor, panic |-> TRUE]
            ELSE [position |-> Position(c2), ok |-> TRUE, cursor |-> c2, panic |-> FALSE]

(***************************************************************************)
(* The state machine: the user of one engine calls SetCursor, Next and     *)
(* Previous on it and SetPosition on the cursor it bound; a call runs step *)
(* by step until it returns.                                               *)
(***************************************************************************)
NoPv == [startPosition |-> 0, backtraceStart |-> 0, lastBreakpoint |-> -1,
         breakpoint |-> -1, ok |-> FALSE]

\* An event: the call op that returned, at which level ("user", or "inner": a
\* Next that Previous called), the cursor position it was entered at, what it
\* returned (position, ok; via as in NoRet) and, for SetPosition, its argument.
NoEv == [op |-> "none", level |-> "none", entry |-> -1, position |-> -1,
         ok |-> FALSE, via |-> "none", arg |-> -1, log |-> <<>>]

NoRun == [valid |-> FALSE, seq |-> <<>>, mono |-> TRUE, done |-> FALSE]

Last(q) == q[Len(q)]

\* A run of calls starts when the cursor stands where the run starts from.
StartRun(atStart) == [valid |-> atStart, seq |-> <<>>, mono |-> TRUE, done |-> FALSE]

\* A run goes on with one more call of its kind, which returned (position, ok).
GrowRun(run, position, ok, increasing) ==
    IF ~run.valid \/ run.done THEN run
    ELSE IF ~ok THEN [run EXCEPT !.done = TRUE]
    ELSE IF run.seq = <<>>
            \/ (increasing /\ position > Last(run.seq))
            \/ (~increasing /\ position < Last(run.seq))
    THEN [run EXCEPT !.seq = Append(run.seq, position)]
    ELSE [run EXCEPT !.mono = FALSE]

AtStart(c) == Position(c) = 0
AtEnd(c) == Position(c) = Len(c.text)

Cursors == {[text |-> t, position |-> p] : t \in Texts, p \in 0..MaxLen}

Init ==
    /\ data \in Kinds
    /\ lookaheadMatches = newLookaheadMatches(Bundle(data))
    /\ ruleStatusIndex = 0
    /\ cursor = NoCursor
    /\ pc = "idle"
    /\ caller = "user"
    /\ nx = NoLocals
    /\ pv = NoPv
    /\ ev = NoEv
    /\ calls = <<>>
    /\ fwdRun = NoRun
    /\ prevRun = NoRun

\* SetCursor with the TODO of line 60 carried out: the cursor is moved to the
\* start of its text.
SetCursorCallsFirst ==
    /\ pc = "idle"
    /\ \E c \in Cursors :
          /\ c.position <= Len(c.text)
          /\ cursor' = [c EXCEPT !.position = 0]
          /\ ev' = [NoEv EXCEPT !.op = "SetCursor", !.level = "user",
                                !.arg = Position(c)]
          /\ fwdRun' = StartRun(TRUE)
          /\ prevRun' = StartRun(Len(c.text) = 0)
    /\ calls' = <<>>
    /\ UNCHANGED <<data, lookaheadMatches, ruleStatusIndex, pc, caller, nx, pv>>

\* SetCursor, lines 56-61, with a StringCursor the user positioned.
SetCursor ==
    /\ pc = "idle"
    /\ \E c \in Cursors :
          /\ c.position <= Len(c.text)
          /\ cursor' = c
          /\ ev' = [NoEv EXCEPT !.op = "SetCursor", !.level = "user",
                                !.arg = Position(c)]
          /\ fwdRun' = StartRun(AtStart(c))
          /\ prevRun' = StartRun(AtEnd(c))
    /\ calls' = <<>>
    /\ UNCHANGED <<data, lookaheadMatches, ruleStatusIndex, pc, caller, nx, pv>>

\* The user calls SetPosition on the bound cursor.
UserSetPosition ==
    /\ pc = "idle"
    /\ cursor # NoCursor
    /\ \E p \in -1..(Len(cursor.text) + 1) :
          LET r == SetPosition(cursor, p) IN
          /\ cursor' = r.cursor
          /\ ev' = [NoEv EXCEPT !.op = "SetPosition", !.level = "user",
                                !.arg = p, !.ok = ~r.err]
          /\ fwdRun' = StartRun(AtStart(r.cursor))
          /\ prevRun' = StartRun(AtEnd(r.cursor))
    /\ calls' = <<>>
    /\ UNCHANGED <<data, lookaheadMatches, ruleStatusIndex, pc, caller, nx, pv>>

\* The engine as a record for the Next operators.
Engine ==
    [cursor |-> cursor, lookaheadMatches |-> lookaheadMatches,
     ruleStatusIndex |-> ruleStatusIndex, nx |-> nx, pc |-> pc, ret |-> NoRet]

\* A call returns to the user.
ReturnToUser(op, entry, ret, c) ==
    LET e == [op |-> op, level |-> "user", entry |-> entry,
              position |-> ret.position, ok |-> ret.ok, via |-> ret.via, arg |-> -1,
              log |-> ret.log]
    IN /\ pc' = "idle"
       /\ nx' = NoLocals
       /\ pv' = NoPv
       /\ caller' = "user"
       /\ ev' = e
       /\ calls' = LET k == [op |-> op, entry |-> entry, ok |-> ret.ok]
                   IN IF calls = <<>> THEN <<k>> ELSE <<Last(calls), k>>
       /\ fwdRun' = IF op = "Next"
                    THEN GrowRun(fwdRun, ret.position, ret.ok, TRUE)
                    ELSE StartRun(AtStart(c))
       /\ prevRun' = IF op = "Previous"
                     THEN GrowRun(prevRun, ret.position, ret.ok, FALSE)
                     ELSE StartRun(AtEnd(c))

\* NextStep with a Next that, when it returns, has written into the bundle it
\* shares: the engine is left on other tables.
NextStepWritesData(s, who, entry) ==
    /\ cursor' = s.cursor
    /\ lookaheadMatches' = s.lookaheadMatches
    /\ ruleStatusIndex' = s.ruleStatusIndex
    /\ data' = IF s.pc = "return" THEN "cluster" ELSE data
    /\ IF s.pc # "return"
       THEN /\ pc' = s.pc
            /\ nx' = s.nx
            /\ caller' = who
            /\ ev' = NoEv
            /\ UNCHANGED <<pv, calls, fwdRun, prevRun>>
       ELSE IF who = "user"
       THEN ReturnToUser("Next", entry, s.ret, s.cursor)
       ELSE \* line 356: breakpoint, ok := r.Next()
            /\ pc' = "Previous_check"
            /\ nx' = NoLocals
            /\ caller' = "user"
            /\ pv' = [pv EXCEPT !.breakpoint = s.ret.position, !.ok = s.ret.ok]
            /\ ev' = [op |-> "Next", level |-> "inner", entry |-> entry,
                      position |-> s.ret.position, ok |-> s.ret.ok,
                      via |-> s.ret.via, arg |-> -1, log |-> s.ret.log]
            /\ UNCHANGED <<calls, fwdRun, prevRun>>

\* The variables after a step of Next that took the engine to s; who is the
\* caller the call returns to, entry the cursor position the call started at.
NextStep(s, who, entry) ==
    /\ cursor' = s.cursor
    /\ lookaheadMatches' = s.lookaheadMatches
    /\ ruleStatusIndex' = s.ruleStatusIndex
    /\ UNCHANGED data
    /\ IF s.pc # "return"
       THEN /\ pc' = s.pc
            /\ nx' = s.nx
            /\ caller' = who
            /\ ev' = NoEv
            /\ UNCHANGED <<pv, calls, fwdRun, prevRun>>
       ELSE IF who = "user"
       THEN ReturnToUser("Next", entry, s.ret, s.cursor)
       ELSE \* line 356: breakpoint, ok := r.Next()
            /\ pc' = "Previous_check"
            /\ nx' = NoLocals
            /\ caller' = "user"
            /\ pv' = [pv EXCEPT !.breakpoint = s.ret.position, !.ok = s.ret.ok]
            /\ ev' = [op |-> "Next", level |-> "inner", entry |-> entry,
                      position |-> s.ret.position, ok |-> s.ret.ok,
                      via |-> s.ret.via, arg |-> -1, log |-> s.ret.log]
            /\ UNCHANGED <<calls, fwdRun, prevRun>>

\* The user calls Next: lines 97-126.
Next_enter ==
    /\ pc = "idle"
    /\ cursor # NoCursor
    /\ NextStep(NextEnter(Bundle(data), Engine), "user", Position(cursor))

\* Lines 129-231, one iteration.
Next_loop ==
    /\ pc = "Next_loop"
    /\ NextStep(NextLoop(Bundle(data), Engine), caller, nx.initialPosition)

\* Lines 233-253.
Next_after ==
    /\ pc = "Next_after"
    /\ NextStep(NextAfter(Bundle(data), Engine), caller, nx.initialPosition)

\* The user calls Previous: lines 315-324.
Previous_enter ==
    /\ pc = "idle"
    /\ cursor # NoCursor
    /\ pv' = [NoPv EXCEPT !.startPosition = Position(cursor),
                          !.backtraceStart = Position(cursor)]
    /\ pc' = "Previous_outer"
    /\ ev' = NoEv
    /\ UNCHANGED <<data, lookaheadMatches, ruleStatusIndex, cursor, caller, nx,
                   calls, fwdRun, prevRun>>

\* Lines 325-351: one iteration of the outer loop up to the replay.
Previous_outer ==
    /\ pc = "Previous_outer"
    /\ LET sp == safePrevious(Bundle(data), cursor, pv.backtraceStart) IN
       IF sp.panic
       THEN /\ pc' = "panic"
            /\ ev' = NoEv
            /\ UNCHANGED <<cursor, pv, nx, caller, calls, fwdRun, prevRun>>
       ELSE IF ~sp.ok
       THEN IF pv.backtraceStart = pv.startPosition
            THEN /\ cursor' = sp.cursor
                 /\ ReturnToUser("Previous", pv.startPosition, NoRet, sp.cursor)
            ELSE LET r == SetPosition(sp.cursor, pv.backtraceStart) IN
                 IF r.err
                 THEN /\ pc' = "panic"
                      /\ ev' = NoEv
                      /\ cursor' = r.cursor
                      /\ UNCHANGED <<pv, nx, caller, calls, fwdRun, prevRun>>
                 ELSE /\ cursor' = r.cursor
                      /\ ReturnToUser("Previous", pv.startPosition,
                                      [position |-> pv.backtraceStart, ok |-> TRUE,
                                       via |-> "start", log |-> <<>>],
                                      r.cursor)
       ELSE /\ cursor' = sp.cursor
            /\ pv' = [pv EXCEPT !.backtraceStart = sp.position]
            /\ pc' = "Previous_replay"
            /\ ev' = NoEv
            /\ UNCHANGED <<nx, caller, calls, fwdRun, prevRun>>
    /\ UNCHANGED <<data, lookaheadMatches, ruleStatusIndex>>

\* Line 356: Previous calls Next (lines 97-126 of it).
Previous_replay ==
    /\ pc = "Previous_replay"
    /\ NextStep(NextEnter(Bundle(data), Engine), "Previous", Position(cursor))

\* Lines 357-377 with the test of line 369 made with > in place of >=: the
\* replay goes on from startPosition.
Previous_checkPast ==
    /\ pc = "Previous_check"
    /\ IF ~pv.ok
       THEN pc' = "panic" /\ UNCHANGED pv
       ELSE IF Position(cursor) > pv.startPosition
       THEN /\ pc' = IF pv.lastBreakpoint = -1 THEN "Previous_outer"
                     ELSE "Previous_finish"
            /\ UNCHANGED pv
       ELSE /\ pv' = [pv EXCEPT !.lastBreakpoint = pv.breakpoint]
            /\ pc' = "Previous_replay"
    /\ ev' = NoEv
    /\ UNCHANGED <<data, lookaheadMatches, ruleStatusIndex, cursor, caller, nx,
                   calls, fwdRun, prevRun>>

\* Lines 357-377 and the test of the outer loop, line 325.
Previous_check ==
    /\ pc = "Previous_check"
    /\ IF ~pv.ok
       THEN pc' = "panic" /\ UNCHANGED pv
       ELSE IF Position(cursor) >= pv.startPosition
       THEN /\ pc' = IF pv.lastBreakpoint = -1 THEN "Previous_outer"
                     ELSE "Previous_finish"
            /\ UNCHANGED pv
       ELSE /\ pv' = [pv EXCEPT !.lastBreakpoint = pv.breakpoint]
            /\ pc' = "Previous_replay"
    /\ ev' = NoEv
    /\ UNCHANGED <<data, lookaheadMatches, ruleStatusIndex, cursor, caller, nx,
                   calls, fwdRun, prevRun>>

\* Lines 380-389.
Previous_finish ==
    /\ pc = "Previous_finish"
    /\ LET r == SetPosition(cursor, pv.lastBreakpoint) IN
       IF r.err
       THEN /\ pc' = "panic"
            /\ ev' = NoEv
            /\ UNCHANGED <<cursor, pv, nx, caller, calls, fwdRun, prevRun>>
       ELSE /\ cursor' = r.cursor
            /\ ReturnToUser("Previous", pv.startPosition,
                            [position |-> pv.lastBreakpoint, ok |-> TRUE,
                             via |-> "replay", log |-> <<>>], r.cursor)
    /\ UNCHANGED <<data, lookaheadMatches, ruleStatusIndex>>

Next ==
    \/ SetCursor
    \/ UserSetPosition
    \/ Next_enter
    \/ Next_loop
    \/ Next_after
    \/ Previous_enter
    \/ Previous_outer
    \/ Previous_replay
    \/ Previous_check
    \/ Previous_finish

Spec == Init /\ [][Next]_vars

(***************************************************************************)
(* Properties.                                                             *)
(***************************************************************************)
Max(S) == CHOOSE m \in S : \A x \in S : x <= m

Range(q) == {q[i] : i \in 1..Len(q)}

\* The positions a StringCursor over text stands at when it is moved from
\* position 0 with Next: the code-point boundaries of text.
RECURSIVE CursorStops(_, _)
CursorStops(c, fuel) ==
    IF fuel = 0 \/ ~CursorNext(c).ok THEN {Position(c)}
    ELSE {Position(c)} \cup CursorStops(CursorNext(c).cursor, fuel - 1)

Boundaries(text) == CursorStops(NewStringCursor(text), Len(text))

\* C1: a Next call (made by the user or inside Previous) that returns ok = true
\* returns a position strictly greater than the cursor position on entry and
\* leaves the cursor at the returned position.
NextAdvances ==
    (ev.op = "Next" /\ ev.ok)
        => (ev.position > ev.entry /\ Position(cursor) = ev.position)

\* C2: the positions that Next returns, called again and again from position
\* 0, are strictly increasing, and when Next returns ok = false the last of
\* them is len(text) (none is returned for the empty text).
ForwardIterationIncreases ==
    fwdRun.valid =>
        /\ fwdRun.mono
        /\ fwdRun.done => IF cursor.text = <<>> THEN fwdRun.seq = <<>>
                          ELSE /\ fwdRun.seq # <<>>
                               /\ Last(fwdRun.seq) = Len(cursor.text)

\* C3: Next returns ok = false exactly when the cursor is at the end of the
\* text on entry, and then the cursor stays where it was.
NextFailsExactlyAtEnd ==
    ev.op = "Next" =>
        /\ (~ev.ok) <=> (ev.entry = Len(cursor.text))
        /\ ~ev.ok => Position(cursor) = ev.entry

\* C3, reached: the user iterated to the end of a text that is not empty and
\* the next Next call returned ok = false.
NextFailedAtEnd ==
    /\ ev.op = "Next" /\ ev.level = "user" /\ ~ev.ok
    /\ ev.entry = Len(cursor.text) /\ Len(cursor.text) > 0
    /\ Position(cursor) = ev.entry
    /\ Len(calls) = 2 /\ calls[1].op = "Next" /\ calls[1].ok

\* C4: Previous entered at a position p other than 0 returns ok = true with
\* the largest break position strictly less than p and leaves the cursor
\* there; the break positions are 0 and the positions forward iteration from 0
\* returns.
PreviousReturnsLargestBreakBefore ==
    (ev.op = "Previous" /\ ev.entry # 0) =>
        /\ ev.ok
        /\ ev.position
             = Max({b \in BreakPositions(Bundle(data), cursor.text) : b < ev.entry})
        /\ Position(cursor) = ev.position

\* C5: Previous returns ok = false exactly when the cursor is at position 0 on
\* entry, and then the cursor stays where it was.
PreviousFailsExactlyAtStart ==
    ev.op = "Previous" =>
        /\ (~ev.ok) <=> (ev.entry = 0)
        /\ ~ev.ok => Position(cursor) = ev.entry

\* C5, reached: the user stepped back to position 0 with a Previous call that
\* returned ok = true and the next Previous call returned ok = false.
PreviousFailedAtStart ==
    /\ ev.op = "Previous" /\ ~ev.ok /\ ev.entry = 0 /\ Position(cursor) = 0
    /\ Len(calls) = 2 /\ calls[1].op = "Previous" /\ calls[1].ok
    /\ calls[1].entry > 0

\* C6: the positions that Previous returns, called again and again from
\* len(text) until it returns ok = false, are strictly decreasing and are the
\* break positions of the text below len(text), position 0 the last of them.
ReverseIterationMirrorsForward ==
    (prevRun.valid /\ prevRun.done) =>
        /\ prevRun.mono
        /\ Range(prevRun.seq)
             = {b \in BreakPositions(Bundle(data), cursor.text) : b < Len(cursor.text)}

\* C7: when the user calls Previous and then Next, or Next and then Previous,
\* from a break position p of the text and both calls return ok = true, the
\* second call returns p.
RoundTripReturnsEntry ==
    (/\ ev.level = "user" /\ ev.op \in {"Next", "Previous"}
     /\ Len(calls) = 2
     /\ calls[1].op # calls[2].op
     /\ calls[1].ok /\ calls[2].ok
     /\ calls[1].entry \in BreakPositions(Bundle(data), cursor.text))
        => ev.position = calls[1].entry

\* C8: no Next call takes the value a slot of lookaheadMatches got at
\* construction or in an earlier Next call for a saved position: a row with
\* accepting > 1 returns only a position saved in the same call.
NoStaleLookahead ==
    ev.op = "Next" => ev.via # "stale"

\* C9: a Next call returns the position and ok, and leaves the cursor and
\* ruleStatusIndex, that a newly constructed engine of the same kind returns
\* and leaves at the same position of the same text.
NextIndependentOfHistory ==
    ev.op = "Next" =>
        LET r == NextCall(Bundle(data), [cursor EXCEPT !.position = ev.entry],
                          newLookaheadMatches(Bundle(data)))
        IN /\ r.ret.ok = ev.ok
           /\ r.ret.position = ev.position
           /\ r.cursor = cursor
           /\ r.ruleStatusIndex = ruleStatusIndex

\* C10: SetPosition returns an error exactly for the positions that are
\* negative, greater than len(text) or inside a multi-byte code point.
SetPositionRejectsInvalid ==
    ev.op = "SetPosition" =>
        ((~ev.ok) <=> (\/ ev.arg < 0
                       \/ ev.arg > Len(cursor.text)
                       \/ ev.arg \notin Boundaries(cursor.text)))

\* C11: at every position the bound cursor stands at, a successful Next
\* followed by Previous returns the same code point and restores the
\* position, and a successful Previous followed by Next does the same.
CursorRoundTrip ==
    cursor # NoCursor =>
        /\ CursorNext(cursor).ok =>
              /\ CursorPrevious(CursorNext(cursor).cursor).ok
              /\ CursorPrevious(CursorNext(cursor).cursor).r = CursorNext(cursor).r
              /\ CursorPrevious(CursorNext(cursor).cursor).cursor = cursor
        /\ CursorPrevious(cursor).ok =>
              /\ CursorNext(CursorPrevious(cursor).cursor).ok
              /\ CursorNext(CursorPrevious(cursor).cursor).r = CursorPrevious(cursor).r
              /\ CursorNext(CursorPrevious(cursor).cursor).cursor = cursor

(***************************************************************************)
(* The trie alone: fastGet applied to 32-bit signed values.  Of the        *)
(* variables, data names the trie, nx.c is the code point looked up and    *)
(* nx.category the value fastGet returned (Abort when the lookup aborts).  *)
(***************************************************************************)
\* How far from each border of the ranges of code points the lookups go.
Near == 5

\* The least and the greatest value of a rune (int32).
MaxInt32 == 2147483647
MinInt32 == (-MaxInt32) - 1

\* A trie whose highStart is U+20000: the code points U+10000..U+1FFFF go
\* through internalSmallIndex (index-1 entries 1020 + 4..7, one index-2 block
\* at 1028, one index-3 block at 1060, data block 0); its high value is 4.
TrieSupplementary ==
    [trieType |-> ucpTrieTypeFast,
     valueWidth |-> ucpTrieValueWidth16,
     dataLength |-> 130,
     highStart |-> 131072,
     index |-> [i \in 0..1091 |-> IF i = 12 THEN 64
                                   ELSE IF i \in 1024..1027 THEN 1028
                                   ELSE IF i \in 1028..1059 THEN 1060
                                   ELSE 0],
     data |-> [i \in 0..129 |-> IF i = 65 THEN 4 ELSE IF i = 128 THEN 4
                                 ELSE IF i = 129 THEN 0 ELSE 3]]

TrieNames == {"bmp", "supplementary"}

TrieOf(name) == IF name = "bmp" THEN Trie ELSE TrieSupplementary

\* The values looked up: those within Near of a border of a range that
\* codePointIndex or smallIndex tells apart, and of the ends of int32.
CodePoints ==
    {MinInt32 + k : k \in 0..Near}
        \cup {b + k : b \in {0, 65536, 131072, 1114112}, k \in (-Near)..Near}
        \cup {MaxInt32 - k : k \in 0..Near}

TrieInit ==
    /\ data \in TrieNames
    /\ lookaheadMatches = <<>>
    /\ ruleStatusIndex = 0
    /\ cursor = NoCursor
    /\ pc = "idle"
    /\ caller = "user"
    /\ nx = NoLocals
    /\ pv = NoPv
    /\ ev = NoEv
    /\ calls = <<>>
    /\ fwdRun = NoRun
    /\ prevRun = NoRun

\* category = fastGet(c), as in line 151 of Next, for any 32-bit c.
TrieLookup ==
    /\ \E cp \in CodePoints :
          nx' = [NoLocals EXCEPT !.c = cp, !.category = fastGet(TrieOf(data), cp)]
    /\ pc' = "looked up"
    /\ UNCHANGED <<data, lookaheadMatches, ruleStatusIndex, cursor, caller, pv, ev,
                   calls, fwdRun, prevRun>>

TrieNext == TrieLookup

TrieSpec == TrieInit /\ [][TrieNext]_vars

\* C12: fastGet returns the error value (data index dataLength - 1), and does
\* not abort, for every 32-bit value outside 0..0x10FFFF, and the high value
\* (data index dataLength - 2) for 0xFFFF < cp <= 0x10FFFF with cp >= highStart.
FastGetOutOfRange ==
    pc = "looked up" =>
        /\ (nx.c < 0 \/ nx.c > 1114111) =>
              /\ nx.category # Abort
              /\ nx.category = TrieOf(data).data[TrieOf(data).dataLength - 1]
        /\ (65535 < nx.c /\ nx.c <= 1114111 /\ nx.c >= TrieOf(data).highStart) =>
              nx.category = TrieOf(data).data[TrieOf(data).dataLength - 2]

LogRow(e) == RowOf(Bundle(data).forwardTable, e.state)

\* The entries before entry i of log whose row is the slash row of the
\* lookahead that the row of entry i completes.
SlashesBefore(log, i) ==
    {j \in 1..(i - 1) : LogRow(log[j]).lookahead = LogRow(log[i]).accepting}

\* Entry i of log reached a row with accepting > 1 whose slot a slash row
\* saved earlier in the same call.
Completes(log, i) ==
    LogRow(log[i]).accepting > rbbiAcceptingUnconditional /\ SlashesBefore(log, i) # {}

\* The position that the last slash row before entry i saved.
SavedBefore(log, i) == log[Max(SlashesBefore(log, i))].position

\* C14: a Next call that reaches a row with accepting > 1 whose slot a slash
\* row saved earlier in the call makes no further transition, returns
\* (saved, true), leaves the cursor at saved and ruleStatusIndex at the row's
\* tagIndex, and leaves the slot as the slash row wrote it.
LookaheadCompletionReturnsSaved ==
    ev.op = "Next" =>
        \A i \in 1..Len(ev.log) :
            Completes(ev.log, i) =>
                /\ i = Len(ev.log)
                /\ ev.ok
                /\ ev.position = SavedBefore(ev.log, i)
                /\ Position(cursor) = SavedBefore(ev.log, i)
                /\ ruleStatusIndex = LogRow(ev.log[i]).tagIndex
                /\ lookaheadMatches[LogRow(ev.log[i]).accepting] = SavedBefore(ev.log, i)

\* C14, reached: a Next call ended on a completed lookahead after a row with
\* accepting = 1 had recorded another position in the same call.
LookaheadCompletedAfterAcceptance ==
    /\ ev.op = "Next" /\ ev.log # <<>>
    /\ Completes(ev.log, Len(ev.log))
    /\ LogRow(ev.log[Len(ev.log)]).lookahead > rbbiAcceptingUnconditional
    /\ \E j \in 1..(Len(ev.log) - 1) :
          /\ LogRow(ev.log[j]).accepting = rbbiAcceptingUnconditional
          /\ ev.log[j].mode # rbbiRunModeStart
          /\ ev.log[j].position # ev.position

\* The entries of log that reached a row with accepting = 1, in any mode and
\* in Run or End mode.
Acceptances(log) ==
    {i \in 1..Len(log) : LogRow(log[i]).accepting = rbbiAcceptingUnconditional}

RecordedAcceptances(log) == {i \in Acceptances(log) : log[i].mode # rbbiRunModeStart}

\* C15: a Next call in which no lookahead completion fires and that reaches
\* a row with accepting = 1 in Run or End mode returns the cursor position
\* read at the last such row, and leaves ruleStatusIndex at the tagIndex of
\* the last row with accepting = 1 it reached.
NextReturnsLastAcceptance ==
    (/\ ev.op = "Next"
     /\ ev.via \notin {"lookahead", "stale"}
     /\ RecordedAcceptances(ev.log) # {})
        => /\ ev.ok
           /\ ev.position = ev.log[Max(RecordedAcceptances(ev.log))].position
           /\ ruleStatusIndex = LogRow(ev.log[Max(Acceptances(ev.log))]).tagIndex

\* C15, reached: a Next call reached rows with accepting = 1 at two positions,
\* went on after the second and returned.
NextPassedTwoAcceptances ==
    /\ ev.op = "Next" /\ ev.ok /\ ev.via \notin {"lookahead", "stale"}
    /\ \E j, k \in RecordedAcceptances(ev.log) :
          /\ j < k /\ k < Len(ev.log)
          /\ ev.log[j].position < ev.log[k].position
          /\ ev.position = ev.log[k].position

\* C16: a Next call entered before the end of the text in which no
\* lookahead completion fires and no row with accepting = 1 is reached in Run
\* or End mode returns ok = true with the position one code point after the
\* entry position, leaves the cursor there and ruleStatusIndex at 0.
NextForcesAdvance ==
    (/\ ev.op = "Next"
     /\ ev.entry < Len(cursor.text)
     /\ ev.via \notin {"lookahead", "stale"}
     /\ RecordedAcceptances(ev.log) = {})
        => /\ ev.ok
           /\ ev.position
                = Position(CursorNext([cursor EXCEPT !.position = ev.entry]).cursor)
           /\ Position(cursor) = ev.position
           /\ ruleStatusIndex = 0

\* C16, reached: a Next call was forced ahead over a two-byte code point
\* after an accepting row had set a tag other than 0 in the call.
NextForcedAfterTag ==
    /\ ev.op = "Next" /\ ev.ok
    /\ ev.via \notin {"lookahead", "stale"}
    /\ RecordedAcceptances(ev.log) = {}
    /\ \E i \in Acceptances(ev.log) : LogRow(ev.log[i]).tagIndex # 0
    /\ ev.position = ev.entry + 2
    /\ ruleStatusIndex = 0

\* The code points that StringCursor.Next returns one after the other from c,
\* each with the position the cursor has after it.
RECURSIVE RunesFrom(_, _)
RunesFrom(c, fuel) ==
    IF fuel = 0 \/ ~CursorNext(c).ok THEN <<>>
    ELSE <<[c |-> CursorNext(c).r, position |-> Position(CursorNext(c).cursor)]>>
         \o RunesFrom(CursorNext(c).cursor, fuel - 1)

\* The entries of a log made in Run mode: the code points looked up in the trie.
RunEntries(log) == SelectSeq(log, LAMBDA e : e.mode = rbbiRunModeRun)

\* Entry e of a log fed the code point u with the category the trie gives it.
Fed(e, u) ==
    /\ e.c = u.c
    /\ e.position = u.position
    /\ e.category = fastGet(Bundle(data).trie, u.c) % 65536

\* C17: with bofRequired, the first transition of a Next call is made in
\* Start mode on category 2 with the cursor where line 111 left it, it leaves
\* result and the cursor alone, and the transitions after it feed the code
\* points from the entry position in text order, each once.
BofStepThenText ==
    /\ [](ev.op = "Next" /\ Bundle(data).forwardTable.bofRequired /\ ev.log # <<>> =>
            LET text == RunesFrom([cursor EXCEPT !.position = ev.entry],
                                  Len(cursor.text))
                run == RunEntries(ev.log)
            IN /\ ev.log[1].mode = rbbiRunModeStart
               /\ ev.log[1].category = 2
               /\ ev.log[1].position = text[1].position
               /\ \A i \in 2..Len(ev.log) : ev.log[i].mode # rbbiRunModeStart
               /\ Len(run) <= Len(text)
               /\ \A i \in 1..Len(run) : Fed(run[i], text[i]))
    /\ [][(/\ pc = "Next_loop" /\ nx.mode = rbbiRunModeStart
           /\ pc' \in {"Next_loop", "Next_after"})
             => /\ nx'.result = nx.result
                /\ nx'.c = nx.c
                /\ cursor' = cursor]_vars

\* C17, reached: a Next call on a bundle with bofRequired reached an accepting
\* row in its Start step, then fed the two code points of the text, the second
\* of two bytes, and returned the position after them.
BofStepAcceptedThenFed ==
    /\ ev.op = "Next" /\ ev.ok
    /\ Bundle(data).forwardTable.bofRequired
    /\ Len(ev.log) >= 3
    /\ 1 \in Acceptances(ev.log)
    /\ Len(RunEntries(ev.log)) = 2
    /\ RunEntries(ev.log)[2].c = 769
    /\ ev.position = ev.entry + 3

\* The indices of the entries of a log made in End mode.
EndEntries(log) == {i \in 1..Len(log) : log[i].mode = rbbiRunModeEnd}

\* The transitions of a log before the end-of-input one used up the text that
\* follows position entry of cursor c without reaching the stop state.
Exhausted(log, c, entry) ==
    LET run == RunEntries(log) IN
    /\ run # <<>>
    /\ Len(run) = Len(RunesFrom([c EXCEPT !.position = entry], Len(c.text)))
    /\ run[Len(run)].state # rbbiStateStop

\* C18: a Next call that used up the text before the stop state makes one
\* more transition, on category 1 with the cursor at the end of the text, and
\* that transition is its last; no other call makes such a transition; when
\* the row reached by it has accepting = 1 the call returns the end of the text.
EndStepOnce ==
    (ev.op = "Next" /\ ev.log # <<>>) =>
        /\ \A i \in EndEntries(ev.log) :
              /\ i = Len(ev.log)
              /\ ev.log[i].category = 1
              /\ ev.log[i].position = Len(cursor.text)
              /\ Exhausted(ev.log, cursor, ev.entry)
              /\ LogRow(ev.log[i]).accepting = rbbiAcceptingUnconditional
                    => /\ ev.ok
                       /\ ev.position = Len(cursor.text)
                       /\ Position(cursor) = Len(cursor.text)
        /\ (/\ Exhausted(ev.log, cursor, ev.entry)
            /\ ev.via \notin {"lookahead", "stale"})
              => EndEntries(ev.log) # {}

\* C18, reached: a Next call recorded a position inside the text, used up the
\* text, reached a row with accepting = 1 on category 1 and returned the end of
\* the text.
EndStepAccepted ==
    /\ ev.op = "Next" /\ ev.ok
    /\ \E i \in EndEntries(ev.log) :
          /\ LogRow(ev.log[i]).accepting = rbbiAcceptingUnconditional
          /\ \E j \in RecordedAcceptances(ev.log) : ev.log[j].position < ev.log[i].position
    /\ ev.position = Len(cursor.text)
    /\ ev.position > ev.entry + 1

\* The code points that StringCursor.Previous returns one after the other from
\* c, each with the position the cursor has after it.
RECURSIVE RunesBack(_, _)
RunesBack(c, fuel) ==
    IF fuel = 0 \/ ~CursorPrevious(c).ok THEN <<>>
    ELSE <<[c |-> CursorPrevious(c).r,
            position |-> Position(CursorPrevious(c).cursor)]>>
         \o RunesBack(CursorPrevious(c).cursor, fuel - 1)

\* The row of the reverse table reached from row state on code point c.
ReverseNext(d, state, c) ==
    RowOf(d.reverseTable, state).nextStates[fastGet(d.trie, c)]

\* The position before the first code point of back, from its i-th on, on
\* which the reverse table reaches the stop state, the table being in row
\* state before it; position 0 when there is none.
RECURSIVE SafePoint(_, _, _, _)
SafePoint(d, back, i, state) ==
    IF i > Len(back) THEN 0
    ELSE IF ReverseNext(d, state, back[i].c) = rbbiStateStop THEN back[i].position
    ELSE SafePoint(d, back, i + 1, ReverseNext(d, state, back[i].c))

\* C19: the safePrevious call of line 327 fails exactly when fromPosition is 0;
\* otherwise it returns a position below fromPosition, the one before the
\* code point on which the reverse table reached the stop state or 0 when
\* there is none, and leaves the cursor there.
SafePreviousFindsSafePoint ==
    [][(pc = "Previous_outer" /\ pc' # "panic") =>
          /\ (pc' = "Previous_replay") <=> (pv.backtraceStart # 0)
          /\ pc' = "Previous_replay" =>
                /\ pv'.backtraceStart < pv.backtraceStart
                /\ pv'.backtraceStart =
                      SafePoint(Bundle(data),
                                RunesBack([cursor EXCEPT !.position = pv.backtraceStart],
                                          Len(cursor.text)),
                                1, rbbiStateStart)
                /\ Position(cursor') = pv'.backtraceStart]_vars

\* C19, reached: safePrevious returned a position inside the text, two code
\* points before fromPosition, with the cursor on it.
SafePointInsideText ==
    /\ pc = "Previous_replay"
    /\ pv.backtraceStart > 0
    /\ Position(cursor) = pv.backtraceStart
    /\ pv.startPosition = Len(cursor.text)
    /\ Len(RunesFrom(cursor, Len(cursor.text))) = 2

\* C20: the position a Next call passes to SetPosition at line 189, which is
\* the position it returns from line 191, is one that Position() of the bound
\* cursor can have returned: it lies within the bound text.
SetPositionArgumentWasRead ==
    (ev.op = "Next" /\ ev.via \in {"lookahead", "stale"})
        => ev.position \in 0..Len(cursor.text)

\* C21: a Next or Previous call that returns ok = true has passed the position
\* it returns to SetPosition of the bound cursor just before (lines 189, 251,
\* 340, 382); that SetPosition call did not return an error, for an error
\* stops the engine.
EngineSetPositionErrorIsFatal ==
    (ev.op \in {"Next", "Previous"} /\ ev.ok)
        => ~SetPosition(cursor, ev.position).err

\* C22: a Next call made by Previous at line 356 is entered with the cursor
\* before startPosition, so before the end of the text, and returns ok = true:
\* the assertion of line 357 is not reached.
ReplayNextSucceeds ==
    (ev.op = "Next" /\ ev.level = "inner")
        => /\ ev.entry < pv.startPosition
           /\ ev.entry < Len(cursor.text)
           /\ ev.ok
           /\ pv.ok

\* C22, reached: Previous, called at the end of the text, made a second Next
\* call from the break the first one returned, and it returned the end of the
\* text with ok = true.
ReplayReachedEndOfText ==
    /\ ev.op = "Next" /\ ev.level = "inner" /\ ev.ok
    /\ pv.startPosition = Len(cursor.text)
    /\ pv.lastBreakpoint # -1
    /\ ev.entry = pv.lastBreakpoint
    /\ ev.position = Len(cursor.text)

\* C23: the two loops of Previous have a variant. Every safePrevious call of
\* line 327 that finds a safe point replaces backtraceStart by a smaller
\* position, and every Next call of line 356 leaves the cursor after the
\* position it was entered at, so the cursor reaches startPosition.
PreviousLoopsAdvance ==
    /\ [][(pc = "Previous_outer" /\ pc' = "Previous_replay")
             => pv'.backtraceStart < pv.backtraceStart]_vars
    /\ []((ev.op = "Next" /\ ev.level = "inner") => Position(cursor) > ev.entry)

\* C24: SetCursor leaves the cursor it binds at the position it was given
\* with and changes no other field of the engine, and a Next call made right
\* after it starts at that position, with the code point that follows it.
SetCursorOnlyRebinds ==
    /\ [](ev.op = "SetCursor" => Position(cursor) = ev.arg)
    /\ [][ev'.op = "SetCursor" =>
             /\ lookaheadMatches' = lookaheadMatches
             /\ ruleStatusIndex' = ruleStatusIndex
             /\ data' = data]_vars
    /\ [][(ev.op = "SetCursor" /\ pc = "idle") =>
             /\ pc' \in {"Next_loop", "Next_after"} =>
                   /\ nx'.initialPosition = ev.arg
                   /\ nx'.c = CursorNext([cursor EXCEPT !.position = ev.arg]).r
             /\ ev'.op = "Next" => ev'.entry = ev.arg]_vars

\* C24, reached: an engine that was used before was given a cursor placed
\* inside its text, and the cursor is still there.
CursorBoundInsideText ==
    /\ ev.op = "SetCursor"
    /\ ev.arg > 0 /\ ev.arg < Len(cursor.text)
    /\ Position(cursor) = ev.arg
    /\ ruleStatusIndex # 0

====
